---- MODULE Spec2Model ----
(***************************************************************************)
(* The fasttimer package of bench/ (bench/fasttimer/__init__.py) and the   *)
(* nested-loop benchmark bench/inner_loop.py.                              *)
(*                                                                         *)
(* Strings are sequences of one-character strings.  The compiled module    *)
(* _fasttimer and the shared library _mpytimer.so are native code; their   *)
(* timing loop is modelled from its specified contract.                    *)
(***************************************************************************)
EXTENDS Integers, Sequences, FiniteSets, TLC

VARIABLES env, lpc, variant, timeitDefined, loadError, file, path, lib,
          _timeit, opened, resolves,
          fr, clock, calls, trampolines,
          eqArgs, frC, frF, eqClock,
          xs, strategy, spc, pos, z, visited, ret

timerVars == <<env, lpc, variant, timeitDefined, loadError, file, path, lib,
               _timeit, opened, resolves, fr, clock, calls, trampolines>>
equivVars == <<eqArgs, frC, frF, eqClock>>
searchVars == <<xs, strategy, spc, pos, z, visited, ret>>
vars == <<timerVars, equivVars, searchVars>>

(* ------------------------------ bounds -------------------------------- *)

MaxFileLen == 3
MaxNumber == 2
MaxWraps == 1
MaxRaiseAt == 2
MaxCalls == 2
MaxClock == 2
MaxTokens == 6

(* ----------------------------- strings -------------------------------- *)

Slash == "/"

Alphabet == {Slash, "a"}

StringsUpTo(n) == UNION {[1..k -> Alphabet] : k \in 0..n}

\* A module file path names a file: it is not empty and does not end in '/'.
Files == {s \in StringsUpTo(MaxFileLen) : Len(s) > 0 /\ s[Len(s)] # Slash}

\* str.split('/')
RECURSIVE Split(_)
Split(s) ==
    IF s = <<>> THEN << <<>> >>
    ELSE LET r == Split(Tail(s))
         IN  IF Head(s) = Slash THEN << <<>> >> \o r
             ELSE << <<Head(s)>> \o Head(r) >> \o Tail(r)

\* '/'.join(parts)
RECURSIVE Join(_)
Join(parts) ==
    IF parts = <<>> THEN <<>>
    ELSE IF Len(parts) = 1 THEN parts[1]
    ELSE parts[1] \o <<Slash>> \o Join(Tail(parts))

\* parts[:-1]
DropLast(parts) == SubSeq(parts, 1, Len(parts) - 1)

LibSuffix == <<"/", "_", "m", "p", "y", "t", "i", "m", "e", "r", ".", "s", "o">>

\* DirOf without the branch for an empty list
DirOfNoDot(f) == Join(DropLast(Split(f)))

\* path = __file__.split('/')[:-1]; if not path: path = '.'; else '/'.join(path)
DirOf(f) ==
    LET p == DropLast(Split(f))
    IN  IF p = <<>> THEN <<".">> ELSE Join(p)

\* the argument of ffi.open
LibPath(dir) == dir \o LibSuffix

(* ------------------------- callables and frames ----------------------- *)

Callables == {"f", "g"}

\* A callable's behaviour: raiseAt = 0 returns normally every time,
\* raiseAt = k raises on its k-th invocation.
Behaviours == 0..MaxRaiseAt

Forms == {"positional", "keyword", "omitted"}

DefaultNumber == 1000000

NoCb == [id |-> 0, wraps |-> "none"]

IdleFrame ==
    [pc |-> "idle", via |-> "none", callback |-> "none", raiseAt |-> 0,
     form |-> "none", arg |-> 0, wraps |-> 0, number |-> 0, cb |-> NoCb, target |-> "none",
     count |-> 0, countWraps |-> 0, log |-> <<>>, t0 |-> 0, t1 |-> 0, native |-> 0,
     result |-> 0, exc |-> "none"]

\* A Python int is unbounded.  The count of a call is wraps * 2^32 + number
\* with number below 2^31; wraps = 0 for every count that fits a C int.

\* The runs the model follows to their end: a count within the bound, or a
\* callable that raises within the bound.
BoundedRun(wraps, number, raiseAt) ==
    \/ wraps = 0 /\ number <= MaxNumber
    \/ raiseAt >= 1 /\ (wraps > 0 \/ raiseAt <= number)

\* FallbackBind with another default
DefaultRebound(form, arg) == IF form = "omitted" THEN 100000 ELSE arg + 0

\* def timeit(callback, number=1000000): the binding of number
FallbackBind(form, arg) == IF form = "omitted" THEN DefaultNumber ELSE arg

\* _fasttimer.timeit(callable, number = 1_000_000): the binding of number
CompiledBind(form, arg) == IF form = "omitted" THEN DefaultNumber ELSE arg

\* Entering the Python timeit: its parameters are bound, nothing else.
FallbackEnter(c, k, form, w, arg) ==
    [IdleFrame EXCEPT !.pc = "bound", !.via = "DynamicFallback",
                      !.callback = c, !.raiseAt = k, !.form = form,
                      !.arg = arg, !.wraps = w,
                      !.number = FallbackBind(form, arg)]

Wrapped(f) == f.callback

\* cb = ffi.callback('v', callback, '')
FallbackMakeCb(f, id) ==
    [f EXCEPT !.pc = "cb", !.cb = [id |-> id, wraps |-> Wrapped(f)]]

\* PassedCount with one iteration too many
CountOffByOne(f) == [wraps |-> f.wraps, number |-> f.number + 1]

\* the second argument of _timeit(cb, number)
PassedCount(f) == [wraps |-> f.wraps, number |-> f.number]

\* lib.func('d', 'timeit', 'Ci'): the count is passed as a C int.  A count
\* that fits is passed as it is; one that does not is cut to its low 32
\* bits, or refused by the bridge.
AsCInt(n) ==
    IF n.wraps = 0 THEN {[ok |-> TRUE, val |-> n.number]}
    ELSE {[ok |-> TRUE, val |-> n.number], [ok |-> FALSE, val |-> 0]}

\* _timeit(cb, number): the native function is entered with the
\* trampoline and the count, and reads the clock.
FallbackCallNative(f, conv, now) ==
    IF conv.ok
    THEN [f EXCEPT !.pc = "native", !.target = f.cb.wraps,
                   !.count = conv.val, !.t0 = now]
    ELSE [f EXCEPT !.pc = "raised", !.exc = "OverflowError"]

\* The compiled timeit is entered with the callable and the count.
CompiledEnter(c, k, form, w, arg, now) ==
    [IdleFrame EXCEPT !.pc = "native", !.via = "Compiled", !.callback = c,
                      !.raiseAt = k, !.form = form, !.arg = arg,
                      !.wraps = w,
                      !.number = CompiledBind(form, arg), !.target = c,
                      !.count = CompiledBind(form, arg), !.countWraps = w,
                      !.t0 = now]

\* One iteration of the native loop: the target is invoked; if it raises,
\* the loop is left at once with the exception.
NativeInvoke(f) ==
    LET n == Len(f.log) + 1
    IN  IF f.raiseAt = n
        THEN [f EXCEPT !.log = Append(f.log, f.target),
                       !.pc = "nativeRaised", !.exc = f.target]
        ELSE [f EXCEPT !.log = Append(f.log, f.target)]

\* After the last iteration the clock is read again.
NativeFinish(f, now) ==
    [f EXCEPT !.pc = "nativeDone", !.t1 = now, !.native = now - f.t0]

\* FallbackReturn with the exception swallowed
ReturnSwallow(f) == [f EXCEPT !.pc = "returned", !.result = f.native]

\* FallbackReturn with the result adjusted by a tick
ReturnAdjusted(f) ==
    IF f.exc # "none" THEN [f EXCEPT !.pc = "raised"]
    ELSE [f EXCEPT !.pc = "returned", !.result = f.native - 1]

\* return _timeit(cb, number): the native result, or the exception
FallbackReturn(f) ==
    IF f.exc # "none" THEN [f EXCEPT !.pc = "raised"]
    ELSE [f EXCEPT !.pc = "returned", !.result = f.native]

CompiledReturn(f) ==
    IF f.exc # "none" THEN [f EXCEPT !.pc = "raised"]
    ELSE [f EXCEPT !.pc = "returned", !.result = f.native]

\* the native loop has iterations left
MoreToDo(f) == f.countWraps > 0 \/ Len(f.log) < f.count

Ticks(now) == {t \in now..(now + 1) : t <= MaxClock}

(* ------------------------------ module load --------------------------- *)

NoLib == [open |-> FALSE, path |-> <<>>, id |-> 0]
NoSym == [resolved |-> FALSE, name |-> "none", sig |-> "none", id |-> 0]

\* What the load finds when it looks: whether _fasttimer can be imported,
\* whether ffi can, whether the library opens, whether it has the symbol.
Unknown == [compiled |-> "unknown", ffi |-> "unknown", libfile |-> "unknown",
            symbol |-> "unknown"]

Found == {"yes", "no"}

TimerInit ==
    /\ env = Unknown
    /\ lpc = "import"
    /\ variant = "none"
    /\ timeitDefined = FALSE
    /\ loadError = "none"
    /\ file = <<>>
    /\ path = <<>>
    /\ lib = NoLib
    /\ _timeit = NoSym
    /\ opened = <<>>
    /\ resolves = 0
    /\ fr = IdleFrame
    /\ clock = 0
    /\ calls = 0
    /\ trampolines = 0

loadVars == <<env, lpc, variant, timeitDefined, loadError, file, path, lib,
              _timeit, opened, resolves>>
callVars == <<fr, clock, calls, trampolines>>

\* ImportCompiled with the fallback block run after a successful import too
ImportCompiledFallThrough ==
    /\ lpc = "import"
    /\ \E found \in Found : env' = [env EXCEPT !.compiled = found]
    /\ IF env'.compiled = "yes"
       THEN /\ variant' = "Compiled"
            /\ timeitDefined' = TRUE
       ELSE UNCHANGED <<variant, timeitDefined>>
    /\ lpc' = "ffi"
    /\ UNCHANGED <<loadError, file, path, lib, _timeit, opened, resolves>>
    /\ UNCHANGED <<callVars, equivVars, searchVars>>

\* try: from ._fasttimer import timeit / except:
ImportCompiled ==
    /\ lpc = "import"
    /\ \E found \in Found : env' = [env EXCEPT !.compiled = found]
    /\ IF env'.compiled = "yes"
       THEN /\ variant' = "Compiled"
            /\ timeitDefined' = TRUE
            /\ lpc' = "loaded"
       ELSE /\ lpc' = "ffi"
            /\ UNCHANGED <<variant, timeitDefined>>
    /\ UNCHANGED <<loadError, file, path, lib, _timeit, opened, resolves>>
    /\ UNCHANGED <<callVars, equivVars, searchVars>>

\* import ffi
ImportFfi ==
    /\ lpc = "ffi"
    /\ \E found \in Found : env' = [env EXCEPT !.ffi = found]
    /\ IF env'.ffi = "yes"
       THEN lpc' = "path" /\ UNCHANGED loadError
       ELSE lpc' = "failed" /\ loadError' = "ImportError"
    /\ UNCHANGED <<variant, timeitDefined, file, path, lib, _timeit,
                   opened, resolves>>
    /\ UNCHANGED <<callVars, equivVars, searchVars>>

\* lines 5-7: path from __file__
ComputePath ==
    /\ lpc = "path"
    /\ \E f \in Files :
         /\ file' = f
         /\ path' = DirOf(f)
    /\ lpc' = "open"
    /\ UNCHANGED <<env, variant, timeitDefined, loadError, lib, _timeit,
                   opened, resolves>>
    /\ UNCHANGED <<callVars, equivVars, searchVars>>

\* OpenLib going on after a failed open
OpenLibIgnoringFailure ==
    /\ lpc = "open"
    /\ \E found \in Found : env' = [env EXCEPT !.libfile = found]
    /\ opened' = Append(opened, LibPath(path))
    /\ lib' = [open |-> env'.libfile = "yes", path |-> LibPath(path),
               id |-> Len(opened) + 1]
    /\ lpc' = "func"
    /\ UNCHANGED <<variant, timeitDefined, loadError, file, path,
                   _timeit, resolves>>
    /\ UNCHANGED <<callVars, equivVars, searchVars>>

\* lib = ffi.open(path + '/_mpytimer.so')
OpenLib ==
    /\ lpc = "open"
    /\ \E found \in Found : env' = [env EXCEPT !.libfile = found]
    /\ opened' = Append(opened, LibPath(path))
    /\ IF env'.libfile = "yes"
       THEN /\ lib' = [open |-> TRUE, path |-> LibPath(path),
                       id |-> Len(opened) + 1]
            /\ lpc' = "func"
            /\ UNCHANGED loadError
       ELSE /\ lpc' = "failed"
            /\ loadError' = "OSError"
            /\ UNCHANGED lib
    /\ UNCHANGED <<variant, timeitDefined, file, path, _timeit, resolves>>
    /\ UNCHANGED <<callVars, equivVars, searchVars>>

\* _timeit = lib.func('d', 'timeit', 'Ci')
ResolveSym ==
    /\ lpc = "func"
    /\ \E found \in Found : env' = [env EXCEPT !.symbol = found]
    /\ resolves' = resolves + 1
    /\ IF env'.symbol = "yes"
       THEN /\ _timeit' = [resolved |-> TRUE, name |-> "timeit",
                           sig |-> "d(Ci)", id |-> resolves + 1]
            /\ lpc' = "def"
            /\ UNCHANGED loadError
       ELSE /\ lpc' = "failed"
            /\ loadError' = "SymbolError"
            /\ UNCHANGED _timeit
    /\ UNCHANGED <<variant, timeitDefined, file, path, lib, opened>>
    /\ UNCHANGED <<callVars, equivVars, searchVars>>

\* def timeit(callback, number=1000000): the name timeit is bound
DefTimeit ==
    /\ lpc = "def"
    /\ variant' = "DynamicFallback"
    /\ timeitDefined' = TRUE
    /\ lpc' = "loaded"
    /\ UNCHANGED <<env, loadError, file, path, lib, _timeit, opened, resolves>>
    /\ UNCHANGED <<callVars, equivVars, searchVars>>

(* --------------------------------- calls ------------------------------ *)

\* The function the name timeit is bound to.
Dispatch == variant

\* A caller calls timeit(c) / timeit(c, arg) / timeit(c, number=arg).
Call ==
    /\ timeitDefined
    /\ fr.pc = "idle"
    /\ calls < MaxCalls
    /\ \E c \in Callables, k \in Behaviours, form \in Forms,
          w \in 0..MaxWraps, arg \in 0..MaxNumber :
         /\ form = "omitted" => (arg = 0 /\ w = 0)
         /\ IF Dispatch = "Compiled"
            THEN /\ BoundedRun(w, CompiledBind(form, arg), k)
                 /\ fr' = CompiledEnter(c, k, form, w, arg, clock)
            ELSE /\ BoundedRun(0, FallbackBind(form, arg), k)
                 /\ fr' = FallbackEnter(c, k, form, w, arg)
    /\ UNCHANGED <<clock, calls, trampolines>>
    /\ UNCHANGED <<loadVars, equivVars, searchVars>>

\* MakeCallback with the library opened and resolved in timeit itself
MakeCallbackReopening ==
    /\ fr.pc = "bound"
    /\ trampolines' = trampolines + 1
    /\ fr' = FallbackMakeCb(fr, trampolines + 1)
    /\ opened' = Append(opened, LibPath(path))
    /\ resolves' = resolves + 1
    /\ lib' = [open |-> TRUE, path |-> LibPath(path), id |-> Len(opened) + 1]
    /\ UNCHANGED <<clock, calls>>
    /\ UNCHANGED <<env, lpc, variant, timeitDefined, loadError, file, path, _timeit>>
    /\ UNCHANGED <<equivVars, searchVars>>

\* MakeCallback with the first trampoline kept for later calls
MakeCallbackCached ==
    /\ fr.pc = "bound"
    /\ trampolines' = IF trampolines = 0 THEN 1 ELSE trampolines
    /\ fr' = FallbackMakeCb(fr, 1)
    /\ UNCHANGED <<clock, calls>>
    /\ UNCHANGED <<loadVars, equivVars, searchVars>>

\* line 11
MakeCallback ==
    /\ fr.pc = "bound"
    /\ trampolines' = trampolines + 1
    /\ fr' = FallbackMakeCb(fr, trampolines + 1)
    /\ UNCHANGED <<clock, calls>>
    /\ UNCHANGED <<loadVars, equivVars, searchVars>>

\* line 12, the call
CallNative ==
    /\ fr.pc = "cb"
    /\ \E conv \in AsCInt(PassedCount(fr)) :
         fr' = FallbackCallNative(fr, conv, clock)
    /\ UNCHANGED <<clock, calls, trampolines>>
    /\ UNCHANGED <<loadVars, equivVars, searchVars>>

\* the native loop: one invocation, during which time may pass
Invoke ==
    /\ fr.pc = "native"
    /\ MoreToDo(fr)
    /\ fr' = NativeInvoke(fr)
    /\ clock' \in Ticks(clock)
    /\ UNCHANGED <<calls, trampolines>>
    /\ UNCHANGED <<loadVars, equivVars, searchVars>>

\* the native loop is over
Finish ==
    /\ fr.pc = "native"
    /\ ~MoreToDo(fr)
    /\ clock' \in Ticks(clock)
    /\ fr' = NativeFinish(fr, clock')
    /\ UNCHANGED <<calls, trampolines>>
    /\ UNCHANGED <<loadVars, equivVars, searchVars>>

\* timeit returns to its caller, or the exception leaves it
Return ==
    /\ fr.pc \in {"nativeDone", "nativeRaised"}
    /\ fr' = IF fr.via = "Compiled" THEN CompiledReturn(fr) ELSE FallbackReturn(fr)
    /\ UNCHANGED <<clock, calls, trampolines>>
    /\ UNCHANGED <<loadVars, equivVars, searchVars>>

\* the caller goes on; the frame and its locals are gone
Resume ==
    /\ fr.pc \in {"returned", "raised"}
    /\ fr' = IdleFrame
    /\ calls' = calls + 1
    /\ UNCHANGED <<clock, trampolines>>
    /\ UNCHANGED <<loadVars, equivVars, searchVars>>

(* ------------------- the two paths on the same call ------------------- *)

NoArgs == [callback |-> "none", raiseAt |-> 0, form |-> "none", arg |-> 0]

EquivIdle ==
    /\ eqArgs = NoArgs
    /\ frC = IdleFrame
    /\ frF = IdleFrame
    /\ eqClock = 0

\* The same call, timeit(c ...), with a count that fits a C int, is made
\* where the compiled path was selected and where the fallback was.
EqCall ==
    /\ eqArgs = NoArgs
    /\ \E c \in Callables, k \in Behaviours, form \in Forms, arg \in 0..MaxNumber :
         /\ form = "omitted" => arg = 0
         /\ BoundedRun(0, CompiledBind(form, arg), k)
         /\ BoundedRun(0, FallbackBind(form, arg), k)
         /\ eqArgs' = [callback |-> c, raiseAt |-> k, form |-> form, arg |-> arg]
         /\ frC' = CompiledEnter(c, k, form, 0, arg, eqClock)
         /\ frF' = FallbackEnter(c, k, form, 0, arg)
    /\ UNCHANGED <<eqClock, timerVars, searchVars>>

EqInvokeC ==
    /\ frC.pc = "native"
    /\ MoreToDo(frC)
    /\ frC' = NativeInvoke(frC)
    /\ eqClock' \in Ticks(eqClock)
    /\ UNCHANGED <<eqArgs, frF, timerVars, searchVars>>

EqFinishC ==
    /\ frC.pc = "native"
    /\ ~MoreToDo(frC)
    /\ eqClock' \in Ticks(eqClock)
    /\ frC' = NativeFinish(frC, eqClock')
    /\ UNCHANGED <<eqArgs, frF, timerVars, searchVars>>

EqReturnC ==
    /\ frC.pc \in {"nativeDone", "nativeRaised"}
    /\ frC' = CompiledReturn(frC)
    /\ UNCHANGED <<eqArgs, frF, eqClock, timerVars, searchVars>>

CompiledRunOver == frC.pc \in {"returned", "raised"}

EqMakeCallback ==
    /\ CompiledRunOver
    /\ frF.pc = "bound"
    /\ frF' = FallbackMakeCb(frF, 1)
    /\ UNCHANGED <<eqArgs, frC, eqClock, timerVars, searchVars>>

EqCallNative ==
    /\ frF.pc = "cb"
    /\ \E conv \in AsCInt(PassedCount(frF)) :
         frF' = FallbackCallNative(frF, conv, eqClock)
    /\ UNCHANGED <<eqArgs, frC, eqClock, timerVars, searchVars>>

EqInvokeF ==
    /\ frF.pc = "native"
    /\ MoreToDo(frF)
    /\ frF' = NativeInvoke(frF)
    /\ eqClock' \in Ticks(eqClock)
    /\ UNCHANGED <<eqArgs, frC, timerVars, searchVars>>

EqFinishF ==
    /\ frF.pc = "native"
    /\ ~MoreToDo(frF)
    /\ eqClock' \in Ticks(eqClock)
    /\ frF' = NativeFinish(frF, eqClock')
    /\ UNCHANGED <<eqArgs, frC, timerVars, searchVars>>

EqReturnF ==
    /\ frF.pc \in {"nativeDone", "nativeRaised"}
    /\ frF' = FallbackReturn(frF)
    /\ UNCHANGED <<eqArgs, frC, eqClock, timerVars, searchVars>>

TimerLoaded ==
    /\ env = [Unknown EXCEPT !.compiled = "yes"]
    /\ lpc = "loaded"
    /\ variant = "Compiled"
    /\ timeitDefined = TRUE
    /\ loadError = "none"
    /\ file = <<>>
    /\ path = <<>>
    /\ lib = NoLib
    /\ _timeit = NoSym
    /\ opened = <<>>
    /\ resolves = 0
    /\ fr = IdleFrame
    /\ clock = 0
    /\ calls = 0
    /\ trampolines = 0

(* --------------------------- inner_loop.py ---------------------------- *)

Needle == 42

\* an element of range(30)
Other == 0

Tokens == {"x", "n", "]", "]]"}

TokenStrings == UNION {[1..k -> Tokens] : k \in 0..MaxTokens}

\* A token string spells a 3-level nested list: "x" and "n" are elements,
\* "]" closes an innermost list, "]]" closes a middle list.
WellFormed(t) ==
    \/ t = <<>>
    \/ /\ t[Len(t)] = "]]"
       /\ \A i \in 1..Len(t) :
            t[i] = "]]" => (i = 1 \/ t[i - 1] \in {"]", "]]"})

RECURSIVE Parse(_, _, _, _)
Parse(t, zs, ys, acc) ==
    IF t = <<>> THEN acc
    ELSE IF Head(t) = "]" THEN Parse(Tail(t), <<>>, Append(ys, zs), acc)
    ELSE IF Head(t) = "]]" THEN Parse(Tail(t), <<>>, <<>>, Append(acc, ys))
    ELSE Parse(Tail(t), Append(zs, IF Head(t) = "n" THEN Needle ELSE Other),
               ys, acc)

NestedLists == {Parse(t, <<>>, <<>>, <<>>) : t \in {u \in TokenStrings : WellFormed(u)}}

NoneValue == [isNone |-> TRUE, val |-> 0]
Value(v) == [isNone |-> FALSE, val |-> v]

\* lines 46-48: the order in which the three are run
Order == <<"breaks", "functions", "exceptions">>

SearchInit ==
    /\ xs \in NestedLists
    /\ strategy = 1
    /\ spc = "outer"
    /\ pos = <<0, 0, 0>>
    /\ z = 0
    /\ visited = <<>>
    /\ ret = <<>>

SearchIdle ==
    /\ xs = <<>>
    /\ strategy = 4
    /\ spc = "end"
    /\ pos = <<0, 0, 0>>
    /\ z = 0
    /\ visited = <<>>
    /\ ret = <<>>

Running(name) == strategy \in 1..3 /\ Order[strategy] = name

\* The function returns v: its result is kept and the next one is run.
Returns(v) ==
    /\ ret' = Append(ret, [by |-> Order[strategy], value |-> v, visited |-> visited])
    /\ strategy' = strategy + 1
    /\ spc' = IF strategy < 3 THEN "outer" ELSE "end"
    /\ pos' = <<0, 0, 0>>
    /\ z' = 0
    /\ visited' = <<>>
    /\ UNCHANGED xs

\* for ys in xs: the next ys, or the loop is exhausted
OuterNext ==
    /\ spc = "outer"
    /\ pos[1] < Len(xs)
    /\ pos' = <<pos[1] + 1, 0, 0>>
    /\ spc' = "middle"
    /\ UNCHANGED <<xs, strategy, z, visited, ret>>

OuterExhausted == spc = "outer" /\ pos[1] >= Len(xs)

\* for zs in ys: the next zs, or back to the outer loop
MiddleStep ==
    /\ spc = "middle"
    /\ IF pos[2] < Len(xs[pos[1]])
       THEN pos' = <<pos[1], pos[2] + 1, 0>> /\ spc' = "inner"
       ELSE pos' = pos /\ spc' = "outer"
    /\ UNCHANGED <<xs, strategy, z, visited, ret>>

InnerHas == spc = "inner" /\ pos[3] < Len(xs[pos[1]][pos[2]])

\* for z in zs: z is bound to the next element; found is where a match goes
InnerVisit(found) ==
    /\ InnerHas
    /\ pos' = <<pos[1], pos[2], pos[3] + 1>>
    /\ z' = xs[pos[1]][pos[2]][pos[3] + 1]
    /\ visited' = Append(visited, z')
    /\ spc' = IF z' = Needle THEN found ELSE "inner"
    /\ UNCHANGED <<xs, strategy, ret>>

\* the innermost loop is exhausted: back to the middle loop
InnerExhausted ==
    /\ spc = "inner"
    /\ pos[3] >= Len(xs[pos[1]][pos[2]])
    /\ spc' = "middle"
    /\ UNCHANGED <<xs, strategy, pos, z, visited, ret>>

\* Breaks without the break of line 14
BreaksMissingBreak ==
    /\ Running("breaks")
    /\ \/ OuterNext
       \/ OuterExhausted /\ Returns(NoneValue)
       \/ MiddleStep
       \/ InnerVisit("break1")
       \/ InnerExhausted
       \/ spc = "break1" /\ spc' = "middle"
                         /\ UNCHANGED <<xs, strategy, pos, z, visited, ret>>

\* def breaks(): lines 6-20
Breaks ==
    /\ Running("breaks")
    /\ \/ OuterNext
       \/ OuterExhausted /\ Returns(NoneValue)
       \/ MiddleStep
       \/ InnerVisit("break1")
       \/ InnerExhausted
       \/ spc = "break1" /\ spc' = "break2"
                         /\ UNCHANGED <<xs, strategy, pos, z, visited, ret>>
       \/ spc = "break2" /\ spc' = "break3"
                         /\ UNCHANGED <<xs, strategy, pos, z, visited, ret>>
       \/ spc = "break3" /\ Returns(Value(z))

\* def _inner() and def functions(): lines 36-44
Functions ==
    /\ Running("functions")
    /\ \/ OuterNext
       \/ OuterExhausted /\ spc' = "innerNone"
                         /\ UNCHANGED <<xs, strategy, pos, z, visited, ret>>
       \/ MiddleStep
       \/ InnerVisit("innerReturn")
       \/ InnerExhausted
       \/ spc = "innerReturn" /\ Returns(Value(z))
       \/ spc = "innerNone" /\ Returns(NoneValue)

\* def exceptions(): lines 26-34
Exceptions ==
    /\ Running("exceptions")
    /\ \/ OuterNext
       \/ OuterExhausted /\ Returns(NoneValue)
       \/ MiddleStep
       \/ InnerVisit("raised")
       \/ InnerExhausted
       \/ spc = "raised" /\ Returns(Value(z))

(* --------------------------- specifications --------------------------- *)

Init == TimerInit /\ EquivIdle /\ SearchIdle

Next ==
    \/ ImportCompiled
    \/ ImportFfi
    \/ ComputePath
    \/ OpenLib
    \/ ResolveSym
    \/ DefTimeit
    \/ Call
    \/ MakeCallback
    \/ CallNative
    \/ Invoke
    \/ Finish
    \/ Return
    \/ Resume

Spec == Init /\ [][Next]_vars

EquivInit == TimerLoaded /\ EquivIdle /\ SearchIdle

EquivNext ==
    \/ EqCall
    \/ EqInvokeC
    \/ EqFinishC
    \/ EqReturnC
    \/ EqMakeCallback
    \/ EqCallNative
    \/ EqInvokeF
    \/ EqFinishF
    \/ EqReturnF

SpecEquiv == EquivInit /\ [][EquivNext]_vars

SearchSpecInit == TimerLoaded /\ EquivIdle /\ SearchInit

SearchNext ==
    \/ Breaks /\ UNCHANGED <<timerVars, equivVars>>
    \/ Functions /\ UNCHANGED <<timerVars, equivVars>>
    \/ Exceptions /\ UNCHANGED <<timerVars, equivVars>>

SpecSearch == SearchSpecInit /\ [][SearchNext]_vars

\* A sequential program keeps running: a search that can step does.
SpecSearchFair == SpecSearch /\ WF_vars(SearchNext)

(* ------------------------------- claims ------------------------------- *)

InCall == fr.pc # "idle"
PastBinding == fr.pc \in {"native", "nativeDone", "nativeRaised", "returned", "raised"}

\* the low part of the count the caller asked for
CallerNumber(f) == IF f.form = "omitted" THEN DefaultNumber ELSE f.arg

\* the count the caller asked for fits a C int
FitsCInt(f) == f.wraps = 0

Repeat(c, n) == [i \in 1..n |-> c]

\* n is the count the caller asked for / is not above it
IsCallerNumber(n, f) == FitsCInt(f) /\ n = CallerNumber(f)
AtMostCallerNumber(n, f) == ~FitsCInt(f) \/ n <= CallerNumber(f)

\* the native function of the fallback has been entered
NativeEntered(f) ==
    /\ f.via = "DynamicFallback"
    /\ f.pc \in {"native", "nativeDone", "nativeRaised", "returned", "raised"}
    /\ f.exc # "OverflowError"

ExactlyNumberInvocations ==
    /\ fr.pc = "returned" => IsCallerNumber(Len(fr.log), fr)
    /\ InCall => /\ AtMostCallerNumber(Len(fr.log), fr)
                 /\ fr.log = Repeat(fr.callback, Len(fr.log))
    /\ NativeEntered(fr) => /\ IsCallerNumber(fr.count, fr)
                            /\ fr.cb.wraps = fr.callback
                            /\ fr.target = fr.callback

\* C1 as stated: for every non-negative number a call timeit(callable,
\* number) whose callable returns normally invokes the callable exactly
\* number times before it returns, and the fallback hands the native
\* function the caller's number unchanged.
C1_EveryNumber == ExactlyNumberInvocations

\* C1, amended: for every non-negative number that fits the native int
\* (number < 2^31) a call timeit(callable, number) whose callable returns
\* normally invokes the callable exactly number times before it returns,
\* never another callable, and with number = 0 not at all; in the fallback
\* the native function receives that number and a trampoline that wraps
\* the caller's callable.
C1_ExactlyNumberInvocations ==
    (InCall /\ FitsCInt(fr)) => ExactlyNumberInvocations

C1_Witness ==
    /\ fr.pc = "returned"
    /\ fr.via = "DynamicFallback"
    /\ FitsCInt(fr)
    /\ fr.arg >= 2
    /\ Len(fr.log) = fr.arg

C1_WitnessZero ==
    /\ fr.pc = "returned"
    /\ fr.via = "DynamicFallback"
    /\ FitsCInt(fr)
    /\ fr.form = "positional"
    /\ fr.arg = 0
    /\ fr.log = <<>>

\* the callable has raised on its k-th invocation
RaisedAtKth == InCall /\ fr.raiseAt >= 1 /\ Len(fr.log) >= fr.raiseAt

\* C2: if the callable raises on its k-th invocation, 1 <= k <= number,
\* no invocation follows the k-th, the call ends with that exception and
\* no duration is returned, on either path.
C2_RaisePropagates ==
    /\ RaisedAtKth =>
           /\ Len(fr.log) = fr.raiseAt
           /\ fr.pc \in {"nativeRaised", "raised"}
           /\ fr.exc = fr.callback
           /\ fr.result = IdleFrame.result
    /\ (InCall /\ FitsCInt(fr) /\ fr.raiseAt \in 1..CallerNumber(fr)) =>
           fr.pc \notin {"returned", "nativeDone"}

C2_Witness ==
    /\ fr.pc = "raised"
    /\ fr.via = "DynamicFallback"
    /\ fr.raiseAt = 2
    /\ Len(fr.log) = 2
    /\ fr.number > 2

FallbackAttempted ==
    \/ lpc \in {"ffi", "path", "open", "func", "def", "failed"}
    \/ variant = "DynamicFallback"

C3_Selection ==
    /\ lpc # "import" => (FallbackAttempted <=> env.compiled = "no")
    /\ variant \in {"none", "Compiled", "DynamicFallback"}
    /\ lpc = "loaded" <=> variant # "none"
    /\ timeitDefined <=> variant # "none"
    /\ InCall => fr.via = variant

C3_Fixed == variant # "none" => (variant' = variant /\ lpc' = lpc)

\* C3: the fallback is attempted exactly when the compiled import failed,
\* the load ends in Compiled, DynamicFallback or a failure, and once a
\* variant is selected it never changes and every call goes through it.
C3_SelectedOnceAtLoad == [](C3_Selection) /\ [][C3_Fixed]_vars

C3_Witness ==
    /\ variant = "DynamicFallback"
    /\ calls = 1
    /\ fr.pc = "native"
    /\ fr.via = "DynamicFallback"

FallbackFails(e) == e.ffi = "no" \/ e.libfile = "no" \/ e.symbol = "no"

FirstFailure(e) ==
    IF e.ffi = "no" THEN "ImportError"
    ELSE IF e.libfile = "no" THEN "OSError"
    ELSE "SymbolError"

\* C4: when the compiled import fails and a step of the fallback fails,
\* the load ends with that step's error, timeit is never defined and is
\* never called.
C4_FailedLoadDefinesNothing ==
    /\ (env.compiled = "no" /\ FallbackFails(env)) =>
           /\ ~timeitDefined
           /\ variant = "none"
           /\ lpc \notin {"def", "loaded"}
           /\ fr = IdleFrame
           /\ calls = 0
           /\ lpc = "failed" => loadError = FirstFailure(env)
    /\ lpc = "failed" => (env.compiled = "no" /\ FallbackFails(env))
    /\ loadError # "none" <=> lpc = "failed"

C4_Witness ==
    /\ lpc = "failed"
    /\ loadError = "OSError"
    /\ opened # <<>>

\* C5: the library is opened and the symbol resolved at most once, at
\* load; whatever calls were made, lib and _timeit are the handle and the
\* function of that one open and that one resolution.
C5_OpenedOnce ==
    /\ Len(opened) <= 1
    /\ resolves <= 1
    /\ variant = "DynamicFallback" =>
           /\ Len(opened) = 1
           /\ resolves = 1
           /\ lib = [open |-> TRUE, path |-> opened[1], id |-> 1]
           /\ _timeit = [resolved |-> TRUE, name |-> "timeit",
                         sig |-> "d(Ci)", id |-> 1]
    /\ variant = "Compiled" => (opened = <<>> /\ resolves = 0 /\ lib = NoLib)

C5_Witness ==
    /\ variant = "DynamicFallback"
    /\ calls = MaxCalls
    /\ Len(opened) = 1

C6_Frame ==
    (InCall \/ fr'.pc # "idle") => UNCHANGED loadVars

\* the invocations of a call that returns, from its arguments: the count,
\* of which a C int keeps the part below 2^32
InvocationsFor(form, arg) == IF form = "omitted" THEN DefaultNumber ELSE arg

C6_State ==
    /\ fr.pc = "idle" => fr = IdleFrame
    /\ (InCall /\ fr.via = "DynamicFallback" /\ fr.pc # "bound") =>
           /\ fr.cb = [id |-> calls + 1, wraps |-> fr.callback]
           /\ trampolines = calls + 1
    /\ (InCall /\ fr.via = "Compiled") => (fr.cb = NoCb /\ trampolines = 0)
    /\ fr.pc = "returned" => Len(fr.log) = InvocationsFor(fr.form, fr.arg)

C7_DurationNonNegative ==
    /\ fr.pc = "returned" =>
           /\ fr.result >= 0
           /\ fr.result = fr.t1 - fr.t0
           /\ fr.result = fr.native
    /\ PastBinding => fr.t0 <= clock
    /\ fr.pc \in {"nativeDone", "returned"} => (fr.t0 <= fr.t1 /\ fr.t1 <= clock)

C7_Witness ==
    /\ fr.pc = "returned"
    /\ fr.via = "DynamicFallback"
    /\ fr.result > 0
    /\ fr.number = 0

BothOver == CompiledRunOver /\ frF.pc \in {"returned", "raised"}

C8_WitnessDefault ==
    /\ BothOver
    /\ eqArgs.form = "omitted"
    /\ frF.number = DefaultNumber

HasSlash(f) == \E i \in 1..Len(f) : f[i] = Slash

LastSlash(f) == CHOOSE i \in 1..Len(f) :
                    f[i] = Slash /\ \A j \in (i + 1)..Len(f) : f[j] # Slash

\* the module path with its last component replaced by _mpytimer.so
SiblingLibrary(f) ==
    IF HasSlash(f) THEN SubSeq(f, 1, LastSlash(f) - 1) \o LibSuffix
    ELSE <<".">> \o LibSuffix

\* C9: the library is opened at the module path with its last component
\* replaced by _mpytimer.so, and at ./_mpytimer.so when the module path
\* has no directory; for a module file in the root directory that is
\* /_mpytimer.so.
C9_LibraryBesideModule ==
    /\ \A i \in 1..Len(opened) : opened[i] = SiblingLibrary(file)
    /\ lib.open => lib.path = SiblingLibrary(file)
    /\ variant = "DynamicFallback" => lib.open

C9_Witness ==
    /\ file = <<Slash, "a">>
    /\ lib.open
    /\ opened = <<LibSuffix>>

C9_WitnessBare ==
    /\ file = <<"a">>
    /\ opened = << <<".">> \o LibSuffix >>

RECURSIVE Concat(_)
Concat(ss) == IF ss = <<>> THEN <<>> ELSE Head(ss) \o Concat(Tail(ss))

\* the elements of a 3-level nested list in iteration order
Flat(l) == Concat([i \in 1..Len(l) |-> Concat(l[i])])

HasNeedle(s) == \E i \in 1..Len(s) : s[i] = Needle

FirstNeedle(s) == CHOOSE i \in 1..Len(s) :
                      s[i] = Needle /\ \A j \in 1..(i - 1) : s[j] # Needle

\* what a search that stops at the first needle looks at
Scanned(l) ==
    IF HasNeedle(Flat(l)) THEN SubSeq(Flat(l), 1, FirstNeedle(Flat(l)))
    ELSE Flat(l)

Result(l) == IF HasNeedle(Flat(l)) THEN Value(Needle) ELSE NoneValue

IsPrefix(s, t) == Len(s) <= Len(t) /\ s = SubSeq(t, 1, Len(s))

C10_Safe ==
    /\ IsPrefix(visited, Scanned(xs))
    /\ \A i \in 1..Len(ret) :
         /\ ret[i].by = Order[i]
         /\ ret[i].value = Result(xs)
         /\ ret[i].visited = Scanned(xs)
    /\ spc = "end" <=> Len(ret) = 3

\* C10: on every 3-level nested list the three searches terminate, look
\* at the elements in iteration order up to the first 42 and at none after
\* it, and return the same value: 42 when it occurs, None when not.
C10_SearchesEquivalent == [](C10_Safe) /\ <>(spc = "end")

C10_Witness ==
    /\ spc = "end"
    /\ ret[1].value = Value(Needle)
    /\ Len(ret[1].visited) < Len(Flat(xs))
    /\ Len(xs) = 2

C10_WitnessAbsent ==
    /\ spc = "end"
    /\ ret[3].value = NoneValue
    /\ Len(Flat(xs)) >= 2

====
